---- MODULE Spec2Model ----
(***************************************************************************)
(* A model of Backend/main.py: the water source catalog loader with its    *)
(* cache file, the nearest-water lookup, the attribute estimators, the     *)
(* suitability scorer and the batch analysis endpoint with its worker pool.*)
(*                                                                         *)
(* Number representation (TLC has 32-bit integers and no reals):           *)
(*   latitude, longitude          integer, unit 1e-4 degree                *)
(*   elevation, slope, distance   integer, unit 1e-2 (m, %, km)            *)
(*   soil pH                      integer, unit 1e-1                       *)
(* Strings that the code inspects character by character (the landcover    *)
(* label) are sequences of one-character strings.                          *)
(***************************************************************************)
EXTENDS Integers, Sequences, FiniteSets, Bags, TLC

(***************************************************************************)
(* Arithmetic helpers                                                      *)
(***************************************************************************)
Abs(x) == IF x < 0 THEN -x ELSE x

Min(a, b) == IF a <= b THEN a ELSE b

\* Python round(): x, a count of `unit`-th parts, rounded to whole units,
\* a tie going to the even neighbour.  x >= 0.
RoundHalfEven(x, unit) ==
    LET q == x \div unit
        r == x % unit
    IN  IF 2 * r < unit THEN q
        ELSE IF 2 * r > unit THEN q + 1
        ELSE IF q % 2 = 0 THEN q ELSE q + 1

RECURSIVE ISqrtBetween(_, _, _)
\* The largest r in lo..hi with r*r <= x (lo*lo <= x is given).
ISqrtBetween(lo, hi, x) ==
    IF lo >= hi THEN lo
    ELSE LET mid == (lo + hi + 1) \div 2
         IN  IF mid * mid <= x THEN ISqrtBetween(mid, hi, x)
             ELSE ISqrtBetween(lo, mid - 1, x)

\* floor(sqrt(x)) for 0 <= x < 2^31
ISqrt(x) == ISqrtBetween(0, 46340, x)

(***************************************************************************)
(* Squared planar distance in (1e-4 degree)^2, kept as two limbs           *)
(* <<H, L>> = H * 10^6 + L with 0 <= L < 10^6, since the value does not fit *)
(* 32 bits.  sqrt and *111 are increasing, so the code's comparison of     *)
(* distance_km values is the comparison of these numbers.                  *)
(***************************************************************************)
SquareLimbs(d) ==
    LET a  == Abs(d)
        hi == a \div 1000
        lo == a % 1000
        cross == 2 * hi * lo                 \* weight 10^3
        low == (cross % 1000) * 1000 + lo * lo
    IN  <<hi * hi + cross \div 1000 + low \div 1000000, low % 1000000>>

AddLimbs(x, y) ==
    LET l == x[2] + y[2]
    IN  <<x[1] + y[1] + l \div 1000000, l % 1000000>>

LimbsLess(x, y) == x[1] < y[1] \/ (x[1] = y[1] /\ x[2] < y[2])

\* (lat - wlat)^2 + (lon - wlon)^2
DistanceSq(lat, lon, wlat, wlon) ==
    AddLimbs(SquareLimbs(lat - wlat), SquareLimbs(lon - wlon))

\* round(sqrt(d2) * 111, 1) with d2 in degrees^2, as hundredths of a km.
\* With D = H*10^6 + L in (1e-4 degree)^2 the distance in tenths of a km is
\* sqrt(D) * 0.111 = sqrt(D * 12321 / 10^6); F = floor(4 * D * 12321 / 10^6)
\* and the nearest integer to sqrt(F / 4) is (floor(sqrt(F)) + 1) div 2.
RoundedKm(d2) ==
    LET F == d2[1] * 49284 + (d2[2] * 49 + (d2[2] * 71) \div 250) \div 1000
    IN  ((ISqrt(F) + 1) \div 2) * 10

(***************************************************************************)
(* Character strings: str.lower() and the `in` substring test              *)
(***************************************************************************)
Upper == <<"A", "B", "C", "D", "E", "F", "G", "H", "I", "J", "K", "L", "M",
           "N", "O", "P", "Q", "R", "S", "T", "U", "V", "W", "X", "Y", "Z">>

LowerLetters == <<"a", "b", "c", "d", "e", "f", "g", "h", "i", "j", "k", "l", "m",
                  "n", "o", "p", "q", "r", "s", "t", "u", "v", "w", "x", "y", "z">>

LowerChar(c) ==
    IF \E i \in 1..26 : Upper[i] = c
    THEN LowerLetters[CHOOSE i \in 1..26 : Upper[i] = c]
    ELSE c

\* A mutant: the label is compared as written, .lower() forgotten.
LowerForgotten(s) == s

\* str.lower()
Lower(s) == [i \in 1..Len(s) |-> LowerChar(s[i])]

\* keyword in s
Contains(keyword, s) ==
    \E i \in 0..(Len(s) - Len(keyword)) :
        \A j \in 1..Len(keyword) : s[i + j] = keyword[j]

(***************************************************************************)
(* calculate_comprehensive_suitability                                     *)
(***************************************************************************)
\* A mutant: the keyword list holds the stem "agricultur", which the default
\* label 'agriculture' contains.
KeywordsWithStem == { <<"f", "a", "r", "m">>,
                      <<"a", "g", "r", "i", "c", "u", "l", "t", "u", "r">>,
                      <<"o", "r", "c", "h", "a", "r", "d">>,
                      <<"v", "i", "n", "e", "y", "a", "r", "d">> }

Keywords == { <<"f", "a", "r", "m">>,
              <<"a", "g", "r", "i", "c", "u", "l", "t", "u", "r", "a", "l">>,
              <<"o", "r", "c", "h", "a", "r", "d">>,
              <<"v", "i", "n", "e", "y", "a", "r", "d">> }

\* A mutant: both tiers of a criterion are counted when both tests hold.
TallyBothTiers(acc, test1, pts1, why1, test2, pts2, why2) ==
    LET a1 == IF test1
              THEN [score |-> acc.score + pts1, reasons |-> Append(acc.reasons, why1)]
              ELSE acc
    IN  IF test2
        THEN [score |-> a1.score + pts2, reasons |-> Append(a1.reasons, why2)]
        ELSE a1

\* The if/elif chain of one criterion: the first branch whose test holds
\* adds its points and its reason.
Tally(acc, test1, pts1, why1, test2, pts2, why2) ==
    IF test1 THEN [score |-> acc.score + pts1, reasons |-> Append(acc.reasons, why1)]
    ELSE IF test2 THEN [score |-> acc.score + pts2, reasons |-> Append(acc.reasons, why2)]
    ELSE acc

\* row: water_distance_km, slope_percent, elevation_m in hundredths;
\* returns [score, reasons] (the detail text is formatting only).
calculate_comprehensive_suitability(row) ==
    LET start == [score |-> 0, reasons |-> <<>>]
        water == Tally(start,
                       row.water_distance_km <= 500, 25, "very close to water",
                       row.water_distance_km <= 1000, 18, "close to water")
        slope == Tally(water,
                       row.slope_percent <= 500, 20, "low slope",
                       row.slope_percent <= 1000, 15, "medium slope")
        elev  == Tally(slope,
                       row.elevation_m <= 80000, 15, "low elevation",
                       row.elevation_m <= 150000, 10, "medium elevation")
        soil  == Tally(elev,
                       row.soil_productivity = "high", 10, "fertile soil",
                       row.soil_productivity = "medium-high", 7, "good soil")
        rain  == Tally(soil,
                       400 <= row.annual_precipitation_mm
                           /\ row.annual_precipitation_mm <= 800, 8, "ideal precipitation",
                       FALSE, 0, "")
        sun   == Tally(rain,
                       1800 <= row.sunshine_hours /\ row.sunshine_hours <= 2800,
                       7, "ideal sunshine",
                       FALSE, 0, "")
        lc_type == Lower(row.landcover_type)
    IN  Tally(sun,
              \E keyword \in Keywords : Contains(keyword, lc_type),
              8, "existing agricultural land",
              FALSE, 0, "")

(***************************************************************************)
(* categorize_suitability                                                  *)
(***************************************************************************)
\* A mutant: the thresholds are strict.
categorize_strict(score) ==
    IF score > 80 THEN "HIGHLY PRODUCTIVE"
    ELSE IF score > 70 THEN "PRODUCTIVE"
    ELSE IF score > 60 THEN "MODERATELY PRODUCTIVE"
    ELSE "LOW PRODUCTIVITY"

categorize_suitability(score) ==
    IF score >= 80 THEN "HIGHLY PRODUCTIVE"
    ELSE IF score >= 70 THEN "PRODUCTIVE"
    ELSE IF score >= 60 THEN "MODERATELY PRODUCTIVE"
    ELSE "LOW PRODUCTIVITY"

(***************************************************************************)
(* calculate_distance_to_nearest_water                                     *)
(* A water feature is [lat, lon, name, type, source].  The distance_km     *)
(* field of the answer holds the exact distance as the two-limb squared    *)
(* distance D it is the image of (distance_km = sqrt(D) * 0.0111).         *)
(***************************************************************************)
Placeholder == [name |-> "unknown", type |-> "unknown", distance_km |-> <<0, 0>>]

\* A mutant: the comparison is reversed, so the farthest feature wins.
NearestStepFarthest(acc, lat, lon, water) ==
    LET distance_km == DistanceSq(lat, lon, water.lat, water.lon)
    IN  IF acc.min_distance.inf \/ LimbsLess(acc.min_distance.d, distance_km)
        THEN [min_distance |-> [inf |-> FALSE, d |-> distance_km],
              nearest_water |-> [name |-> water.name, type |-> water.type,
                                 distance_km |-> distance_km]]
        ELSE acc

\* One turn of the loop: min_distance is [inf, d]; a feature replaces the
\* nearest one only when strictly closer.
NearestStep(acc, lat, lon, water) ==
    LET distance_km == DistanceSq(lat, lon, water.lat, water.lon)
    IN  IF acc.min_distance.inf \/ LimbsLess(distance_km, acc.min_distance.d)
        THEN [min_distance |-> [inf |-> FALSE, d |-> distance_km],
              nearest_water |-> [name |-> water.name, type |-> water.type,
                                 distance_km |-> distance_km]]
        ELSE acc

RECURSIVE NearestLoop(_, _, _, _, _)
NearestLoop(acc, lat, lon, water_sources, i) ==
    IF i > Len(water_sources) THEN acc
    ELSE NearestLoop(NearestStep(acc, lat, lon, water_sources[i]),
                     lat, lon, water_sources, i + 1)

calculate_distance_to_nearest_water(lat, lon, water_sources) ==
    NearestLoop([min_distance |-> [inf |-> TRUE, d |-> <<0, 0>>],
                 nearest_water |-> Placeholder],
                lat, lon, water_sources, 1).nearest_water

(***************************************************************************)
(* Attribute estimators                                                    *)
(***************************************************************************)
get_climate_data(lat, lon) ==
    IF lat < 370000
    THEN [annual_precipitation_mm |-> 650, sunshine_hours |-> 2950,
          climate_type |-> "Mediterranean"]
    ELSE IF lat < 390000
    THEN [annual_precipitation_mm |-> 380, sunshine_hours |-> 2650,
          climate_type |-> "Continental"]
    ELSE IF lat < 410000
    THEN [annual_precipitation_mm |-> 850, sunshine_hours |-> 1950,
          climate_type |-> "Black Sea"]
    ELSE [annual_precipitation_mm |-> 450, sunshine_hours |-> 2450,
          climate_type |-> "Severe Continental"]

\* elevation in hundredths of a metre, not rounded
estimate_soil_quality(lat, lon, elevation) ==
    IF elevation < 20000
    THEN [soil_type |-> "Loamy", soil_ph |-> 68, productivity |-> "high"]
    ELSE IF elevation < 50000
    THEN [soil_type |-> "Clay-Loamy", soil_ph |-> 71, productivity |-> "medium-high"]
    ELSE IF elevation < 100000
    THEN [soil_type |-> "Loamy-Sandy", soil_ph |-> 65, productivity |-> "medium"]
    ELSE [soil_type |-> "Stony-Sandy", soil_ph |-> 58, productivity |-> "low"]

\* np.random.uniform(low, high) draws from [low, high): the draws the model
\* takes are the sample values inside the interval.
Uniform(low, high, samples) == {v \in samples : low <= v /\ v < high}

\* The set of elevations (hundredths of a metre) one call can return.
quick_elevation_estimate(lat, lon, samples) ==
    IF lat < 370000 THEN Uniform(5000, 30000, samples)
    ELSE IF lat < 390000 THEN Uniform(80000, 120000, samples)
    ELSE IF lat < 410000 THEN Uniform(20000, 80000, samples)
    ELSE Uniform(100000, 180000, samples)

\* The set of slopes (hundredths of a percent) one call can return.
quick_slope_estimate(elevation, lat, lon, samples) ==
    IF elevation < 20000 THEN Uniform(100, 300, samples)
    ELSE IF elevation < 50000 THEN Uniform(200, 600, samples)
    ELSE IF elevation < 100000 THEN Uniform(500, 1000, samples)
    ELSE Uniform(800, 2000, samples)

(***************************************************************************)
(* analyze_coordinate_with_real_water                                      *)
(***************************************************************************)
None == [none |-> TRUE]

IsNone(result) == "none" \in DOMAIN result

\* dict.get(key, default) on a record used as a dict
Get(dict, key, default) == IF key \in DOMAIN dict THEN dict[key] ELSE default

Agriculture == <<"a", "g", "r", "i", "c", "u", "l", "t", "u", "r", "e">>

\* not (36.0 <= lat <= 42.0) and (26.0 <= lon <= 45.0): `not` binds to the
\* latitude test alone.
OutOfBounds(lat, lon) ==
    (~(360000 <= lat /\ lat <= 420000)) /\ (260000 <= lon /\ lon <= 450000)

\* coord_data = <<lat, lon, original_data>>; elevation and slope are the two
\* random draws.  The urban distance (a third draw) enters no score and no
\* response field and is left out.
analyze_coordinate_with_real_water(coord_data, water_sources, elevation, slope) ==
    LET lat == coord_data[1]
        lon == coord_data[2]
        original_data == coord_data[3]
        nearest_water == calculate_distance_to_nearest_water(lat, lon, water_sources)
        climate_data == get_climate_data(lat, lon)
        soil_data == estimate_soil_quality(lat, lon, elevation)
        enhanced_row ==
            [latitude |-> lat,
             longitude |-> lon,
             elevation_m |-> RoundHalfEven(elevation, 100) * 100,
             slope_percent |-> RoundHalfEven(slope, 10) * 10,
             water_distance_km |-> RoundedKm(nearest_water.distance_km),
             nearest_water_name |-> nearest_water.name,
             nearest_water_type |-> nearest_water.type,
             soil_type |-> soil_data.soil_type,
             soil_ph |-> soil_data.soil_ph,
             soil_productivity |-> soil_data.productivity,
             annual_precipitation_mm |-> climate_data.annual_precipitation_mm,
             sunshine_hours |-> climate_data.sunshine_hours,
             climate_type |-> climate_data.climate_type,
             landcover_type |-> Get(original_data, "type", Agriculture)]
        scored == calculate_comprehensive_suitability(enhanced_row)
    IN  IF OutOfBounds(lat, lon) THEN None
        ELSE [latitude |-> enhanced_row.latitude,
              longitude |-> enhanced_row.longitude,
              elevation_m |-> enhanced_row.elevation_m,
              slope_percent |-> enhanced_row.slope_percent,
              water_distance_km |-> enhanced_row.water_distance_km,
              nearest_water_name |-> enhanced_row.nearest_water_name,
              nearest_water_type |-> enhanced_row.nearest_water_type,
              soil_type |-> enhanced_row.soil_type,
              soil_ph |-> enhanced_row.soil_ph,
              soil_productivity |-> enhanced_row.soil_productivity,
              annual_precipitation_mm |-> enhanced_row.annual_precipitation_mm,
              sunshine_hours |-> enhanced_row.sunshine_hours,
              climate_type |-> enhanced_row.climate_type,
              landcover_type |-> enhanced_row.landcover_type,
              suitability_score |-> scored.score,
              suitability_reasons |-> scored.reasons,
              suitability_category |-> categorize_suitability(scored.score)]

(***************************************************************************)
(* The cache file: json.dump and json.load                                 *)
(* A file's text is a sequence of tokens [k, s, n]: punctuation, a string  *)
(* literal or a number literal.  (Python's float repr and string escapes   *)
(* round-trip exactly; the tokens keep the structure the code writes.)     *)
(***************************************************************************)
Punct(c) == [k |-> "punct", s |-> c, n |-> 0]

StrTok(str) == [k |-> "str", s |-> str, n |-> 0]

NumTok(num) == [k |-> "num", s |-> "", n |-> num]

\* json.dump of one water source dict, keys in insertion order
DumpFeature(w) ==
    << Punct("{"),
       StrTok("lat"), Punct(":"), NumTok(w.lat), Punct(","),
       StrTok("lon"), Punct(":"), NumTok(w.lon), Punct(","),
       StrTok("name"), Punct(":"), StrTok(w.name), Punct(","),
       StrTok("type"), Punct(":"), StrTok(w.type), Punct(","),
       StrTok("source"), Punct(":"), StrTok(w.source),
       Punct("}") >>

RECURSIVE DumpItems(_, _)
DumpItems(water_sources, i) ==
    IF i > Len(water_sources) THEN <<>>
    ELSE (IF i > 1 THEN <<Punct(",")>> ELSE <<>>)
         \o DumpFeature(water_sources[i]) \o DumpItems(water_sources, i + 1)

\* A mutant: the list is written last element first.
json_dump_reversed(water_sources) ==
    <<Punct("[")>>
    \o DumpItems([i \in 1..Len(water_sources) |->
                     water_sources[Len(water_sources) + 1 - i]], 1)
    \o <<Punct("]")>>

\* json.dump(water_sources, f)
json_dump(water_sources) ==
    <<Punct("[")>> \o DumpItems(water_sources, 1) \o <<Punct("]")>>

ParseFail == [ok |-> FALSE]

IsPunct(text, i, c) == i <= Len(text) /\ text[i] = Punct(c)

RECURSIVE ParseValue(_, _)
RECURSIVE ParseElems(_, _, _)
RECURSIVE ParseMembers(_, _, _)

\* A JSON value starting at token i: [ok, val, next]
ParseValue(text, i) ==
    IF i > Len(text) THEN ParseFail
    ELSE IF text[i].k = "num" THEN [ok |-> TRUE, val |-> text[i].n, next |-> i + 1]
    ELSE IF text[i].k = "str" THEN [ok |-> TRUE, val |-> text[i].s, next |-> i + 1]
    ELSE IF text[i] = Punct("[")
    THEN IF IsPunct(text, i + 1, "]")
         THEN [ok |-> TRUE, val |-> <<>>, next |-> i + 2]
         ELSE ParseElems(text, i + 1, <<>>)
    ELSE IF text[i] = Punct("{")
    THEN IF IsPunct(text, i + 1, "}")
         THEN [ok |-> TRUE, val |-> [x \in {} |-> 0], next |-> i + 2]
         ELSE ParseMembers(text, i + 1, [x \in {} |-> 0])
    ELSE ParseFail

\* The elements of an array, after "[" or ",": value, then "," or "]"
ParseElems(text, i, acc) ==
    LET v == ParseValue(text, i)
    IN  IF ~v.ok THEN ParseFail
        ELSE IF IsPunct(text, v.next, ",")
        THEN ParseElems(text, v.next + 1, Append(acc, v.val))
        ELSE IF IsPunct(text, v.next, "]")
        THEN [ok |-> TRUE, val |-> Append(acc, v.val), next |-> v.next + 1]
        ELSE ParseFail

\* The members of an object, after "{" or ",": key ":" value, then "," or "}"
ParseMembers(text, i, acc) ==
    IF ~(i <= Len(text) /\ text[i].k = "str" /\ IsPunct(text, i + 1, ":"))
    THEN ParseFail
    ELSE LET v == ParseValue(text, i + 2)
             key == text[i].s
             more == [x \in DOMAIN acc \cup {key} |->
                         IF x = key THEN v.val ELSE acc[x]]
         IN  IF ~v.ok THEN ParseFail
             ELSE IF IsPunct(text, v.next, ",")
             THEN ParseMembers(text, v.next + 1, more)
             ELSE IF IsPunct(text, v.next, "}")
             THEN [ok |-> TRUE, val |-> more, next |-> v.next + 1]
             ELSE ParseFail

\* json.load(f): the whole text is one value, or an exception
json_load(text) ==
    LET v == ParseValue(text, 1)
    IN  IF v.ok /\ v.next = Len(text) + 1 THEN v ELSE ParseFail

\* The file system: the cache file is absent, or holds a text.
NoFile == [exists |-> FALSE, text |-> <<>>]

FileWith(text) == [exists |-> TRUE, text |-> text]

(***************************************************************************)
(* get_all_water_sources_from_osm                                          *)
(***************************************************************************)
\* One element of the service's answer becomes at most one water source.
\* element: [center |-> TRUE/FALSE, lat, lon, tags]; tags is a dict.
WaterType(tags) ==
    IF "waterway" \in DOMAIN tags
    THEN IF tags["waterway"] = "river" THEN "river"
         ELSE IF tags["waterway"] = "stream" THEN "stream"
         ELSE IF tags["waterway"] = "dam" THEN "dam"
         ELSE ""
    ELSE IF "natural" \in DOMAIN tags /\ tags["natural"] = "water" THEN "lake"
    ELSE IF "water" \in DOMAIN tags
    THEN IF tags["water"] = "lake" THEN "lake"
         ELSE IF tags["water"] = "reservoir" THEN "reservoir"
         ELSE ""
    ELSE ""

RECURSIVE ElementsToSources(_, _)
ElementsToSources(elements, i) ==
    IF i > Len(elements) THEN <<>>
    ELSE LET element == elements[i]
             water_type == WaterType(element.tags)
         IN  (IF element.center /\ water_type # ""
              THEN << [lat |-> element.lat, lon |-> element.lon,
                       name |-> Get(element.tags, "name", "Unnamed"),
                       type |-> water_type, source |-> "OpenStreetMap"] >>
              ELSE <<>>)
             \o ElementsToSources(elements, i + 1)

\* The file after `with open(cache_file, 'w') ...: json.dump(...)` inside
\* try/except: pass.  disk is what the file system does: the write goes
\* through, open() fails (the file is left as it was), or the write fails
\* after `cut` tokens (open() has truncated the file).
WriteCache(cache_file, water_sources, disk) ==
    IF disk.kind = "written" THEN FileWith(json_dump(water_sources))
    ELSE IF disk.kind = "open_fails" THEN cache_file
    ELSE FileWith(SubSeq(json_dump(water_sources), 1,
                         Min(disk.cut, Len(json_dump(water_sources)) - 1)))

\* The cache branch returns: the file exists and json.load raises nothing.
CacheUsable(cache_file) == cache_file.exists /\ json_load(cache_file.text).ok

\* A mutant: the request is repeated once when it fails.
IssuedWithRetry(response) == IF response.kind = "ok" THEN 1 ELSE 2

\* requests.post is called once; nothing retries.
Issued(response) == 1

\* The whole function.  response is the service's answer should a request
\* be made: kind "exception" (requests.post raises), "status" (a non-200
\* status_code), "bad_json" (response.json() raises), "no_elements" (the body
\* has no 'elements' key: KeyError) or "ok" (elements).
\* Returns [ret, cache_file, requests, wrote].
get_all_water_sources_from_osm(cache_file, response, disk) ==
    IF CacheUsable(cache_file)
    THEN [ret |-> IF json_load(cache_file.text).ok
                  THEN json_load(cache_file.text).val ELSE <<>>,
          cache_file |-> cache_file, requests |-> 0, wrote |-> FALSE]
    ELSE IF response.kind = "ok"
    THEN LET water_sources == ElementsToSources(response.elements, 1)
         IN  [ret |-> water_sources,
              cache_file |-> WriteCache(cache_file, water_sources, disk),
              requests |-> Issued(response),
              wrote |-> disk.kind = "written"]
    ELSE [ret |-> <<>>, cache_file |-> cache_file,
          requests |-> Issued(response), wrote |-> FALSE]

(***************************************************************************)
(* Inputs of the model                                                     *)
(***************************************************************************)
Farmland == <<"F", "a", "r", "m", "l", "a", "n", "d">>

LandcoverLabels ==
    { Farmland, Agriculture,
      <<"A", "G", "R", "I", "C", "U", "L", "T", "U", "R", "A", "L">>,
      <<"o", "l", "d", " ", "O", "r", "c", "h", "a", "r", "d">>,
      <<"V", "i", "n", "e", "Y", "a", "r", "d", "s">>,
      <<"f", "a", "r", " ", "m">>,
      <<"f", "o", "r", "e", "s", "t">>,
      <<>> }

\* Rows handed to the scorer directly: values on, just below and just above
\* every threshold of the rule table.
Rows ==
    [water_distance_km : {0, 300, 500, 501, 1000, 1001},
     slope_percent : {200, 500, 501, 1000, 1001},
     elevation_m : {10000, 80000, 80001, 150000, 150001},
     soil_productivity : {"high", "medium-high", "medium", "low"},
     annual_precipitation_mm : {399, 400, 600, 800, 801},
     sunshine_hours : {1799, 1800, 2000, 2800, 2801},
     landcover_type : LandcoverLabels]

\* Draws of the random estimators (hundredths): the ends of every range and
\* the values around every threshold and rounding tie the code tests.
ElevationSamples ==
    { 5000, 19949, 19950, 19999, 20000, 29999, 49999, 50000, 79949, 79951,
      79999, 80000, 80049, 80051, 99999, 100000, 119999, 150049, 150051, 179999 }

SlopeSamples ==
    { 100, 299, 200, 504, 506, 599, 500, 994, 996, 999, 800, 1004, 1006, 1999 }

\* Water features, 1e-4 degree.
WCoruh == [lat |-> 407300, lon |-> 418100, name |-> "Coruh", type |-> "river",
           source |-> "OpenStreetMap"]

WSeyhan == [lat |-> 369900, lon |-> 353300, name |-> "Seyhan", type |-> "river",
            source |-> "OpenStreetMap"]

WMogan == [lat |-> 400000, lon |-> 328597, name |-> "Mogan", type |-> "lake",
           source |-> "OpenStreetMap"]

WUnnamed == [lat |-> 384800, lon |-> 271428, name |-> "Unnamed", type |-> "stream",
             source |-> "OpenStreetMap"]

Features == {WCoruh, WSeyhan, WMogan, WUnnamed}

\* All lists of at most n features
RECURSIVE SeqsUpTo(_, _)
SeqsUpTo(S, n) ==
    IF n = 0 THEN {<<>>}
    ELSE LET shorter == SeqsUpTo(S, n - 1)
         IN  shorter \cup {Append(q, x) : q \in {r \in shorter : Len(r) = n - 1}, x \in S}

MaxCatalog == 2

Catalogs == SeqsUpTo(Features, MaxCatalog)

\* Points handed to the locator and the analysis directly: the fallback
\* coordinates near the features, points on the latitude band limits, and
\* points outside the bounding box in latitude, in longitude and in both.
Points ==
    { <<407214, 418005>>, <<407522, 418280>>, <<369864, 353253>>,
      <<399334, 328597>>, <<384237, 271428>>, <<370000, 353300>>,
      <<390000, 328597>>, <<410000, 418100>>, <<369999, 353300>>,
      <<430000, 300000>>, <<400000, 460000>>, <<350000, 250000>> }

OriginalData == { [x \in {} |-> <<>>] } \cup { [type |-> l] : l \in {Farmland, <<"f", "o", "r", "e", "s", "t">>} }

(***************************************************************************)
(* State                                                                   *)
(***************************************************************************)
VARIABLES
    call,           \* the last direct call of a pure function: its arguments and result
    cache_file,     \* turkiye_water_sources_cache.json: [exists, text]
    requests,       \* requests sent to the external service so far
    calls,          \* calls of get_all_water_sources_from_osm so far
    last,           \* the last loader call: the file it found, what it returned
    written,        \* the list the loader last wrote to the cache file, while
                    \* that file is as the loader left it
    pc,             \* where comprehensive_real_analysis stands
    max_areas,      \* query parameter
    sample_size,    \* query parameter
    csv_files,      \* the three CSV files of load_coordinates_from_csv
    water_sources,  \* local of the endpoint
    coordinates,    \* local of the endpoint
    queue,          \* the executor's work queue: submitted, not yet started
    running,        \* the tasks the pool's workers are executing (a bag)
    finished,       \* done futures as_completed has not yielded yet (a bag of results)
    suitable_areas, \* local of the endpoint
    processed,      \* local of the endpoint
    cutoff,         \* the collection loop was left by break
    after_cutoff,   \* scoring tasks that completed after the break
    response        \* what the endpoint returned

callVars == <<call>>

loaderVars == <<cache_file, requests, calls, last, written>>

batchVars == <<pc, max_areas, sample_size, csv_files, water_sources, coordinates,
               queue, running, finished, suitable_areas, processed, cutoff,
               after_cutoff, response>>

vars == <<call, cache_file, requests, calls, last, written, pc, max_areas,
          sample_size, csv_files, water_sources, coordinates, queue, running,
          finished, suitable_areas, processed, cutoff, after_cutoff, response>>

NoCall == [fn |-> "none"]

NoLast == [before |-> NoFile, ret |-> <<>>, requests |-> 0, kind |-> "none",
           wrote |-> FALSE]

NotWritten == [valid |-> FALSE, ret |-> <<>>, at |-> 0]

LoaderIdle ==
    /\ cache_file = NoFile
    /\ requests = 0
    /\ calls = 0
    /\ last = NoLast
    /\ written = NotWritten

BatchIdle ==
    /\ pc = "idle"
    /\ max_areas = 100
    /\ sample_size = 5000
    /\ csv_files = <<>>
    /\ water_sources = <<>>
    /\ coordinates = <<>>
    /\ queue = <<>>
    /\ running = EmptyBag
    /\ finished = EmptyBag
    /\ suitable_areas = <<>>
    /\ processed = 0
    /\ cutoff = FALSE
    /\ after_cutoff = 0
    /\ response = [success |-> FALSE, message |-> "none"]

(***************************************************************************)
(* Direct calls of the pure functions                                      *)
(***************************************************************************)
CallScore ==
    /\ call = NoCall
    /\ UNCHANGED <<loaderVars, batchVars>>
    /\ \E row \in Rows :
           call' = [fn |-> "calculate_comprehensive_suitability",
                    row |-> row,
                    ret |-> calculate_comprehensive_suitability(row)]

CallCategorize ==
    /\ call = NoCall
    /\ UNCHANGED <<loaderVars, batchVars>>
    /\ \E score \in 0..100, higher \in 0..100 :
           /\ score <= higher
           /\ call' = [fn |-> "categorize_suitability",
                       score |-> score,
                       ret |-> categorize_suitability(score),
                       higher |-> higher,
                       ret_higher |-> categorize_suitability(higher)]

CallNearest ==
    /\ call = NoCall
    /\ UNCHANGED <<loaderVars, batchVars>>
    /\ \E p \in Points, catalog \in Catalogs :
           call' = [fn |-> "calculate_distance_to_nearest_water",
                    lat |-> p[1], lon |-> p[2],
                    water_sources |-> catalog,
                    ret |-> calculate_distance_to_nearest_water(p[1], p[2], catalog)]

CallAnalyze ==
    /\ call = NoCall
    /\ UNCHANGED <<loaderVars, batchVars>>
    /\ \E p \in Points, original_data \in OriginalData, catalog \in Catalogs :
         \E elevation \in quick_elevation_estimate(p[1], p[2], ElevationSamples) :
           \E slope \in quick_slope_estimate(elevation, p[1], p[2], SlopeSamples) :
               call' = [fn |-> "analyze_coordinate_with_real_water",
                        lat |-> p[1], lon |-> p[2],
                        original_data |-> original_data,
                        water_sources |-> catalog,
                        elevation |-> elevation,
                        slope |-> slope,
                        ret |-> analyze_coordinate_with_real_water(
                                    <<p[1], p[2], original_data>>, catalog,
                                    elevation, slope)]

InitCalls == call = NoCall /\ LoaderIdle /\ BatchIdle

NextCalls == CallScore \/ CallCategorize \/ CallNearest \/ CallAnalyze

SpecCalls == InitCalls /\ [][NextCalls]_vars

(***************************************************************************)
(* The loader called again and again, the cache file deleted or rewritten  *)
(* from outside in between                                                 *)
(***************************************************************************)
\* Elements of the service's answer: a named river, a stream with no name,
\* an unnamed natural water body, a reservoir, an element with no center and
\* one with a tag combination the loader does not recognise.
ERiver == [center |-> TRUE, lat |-> 369900, lon |-> 353300,
           tags |-> [waterway |-> "river", name |-> "Seyhan"]]

EStream == [center |-> TRUE, lat |-> 384800, lon |-> 271428,
            tags |-> [waterway |-> "stream"]]

ELake == [center |-> TRUE, lat |-> 400000, lon |-> 328597,
          tags |-> [natural |-> "water", name |-> "Mogan"]]

EReservoir == [center |-> TRUE, lat |-> 407300, lon |-> 418100,
               tags |-> [water |-> "reservoir", name |-> "Coruh"]]

ENoCenter == [center |-> FALSE, lat |-> 0, lon |-> 0,
              tags |-> [waterway |-> "river", name |-> "Firat"]]

ECanal == [center |-> TRUE, lat |-> 390000, lon |-> 300000,
           tags |-> [waterway |-> "canal", name |-> "Kanal"]]

ElementLists ==
    { <<>>, <<ENoCenter, ECanal>>, <<ERiver>>, <<EReservoir, ENoCenter, ERiver>>,
      <<ELake, ECanal, EStream>> }

Responses ==
    { [kind |-> "exception"], [kind |-> "status"], [kind |-> "bad_json"],
      [kind |-> "no_elements"] }
    \cup { [kind |-> "ok", elements |-> e] : e \in ElementLists }

MaxCut == 3

DiskOutcomes ==
    { [kind |-> "written"], [kind |-> "open_fails"] }
    \cup { [kind |-> "partial", cut |-> c] : c \in 0..MaxCut }

\* Cache files found at the start or put there from outside: a list the
\* loader wrote earlier, an empty list, a truncated text, a JSON object.
CacheTexts ==
    { json_dump(<<WCoruh, WSeyhan>>),
      json_dump(<<>>),
      SubSeq(json_dump(<<WCoruh, WSeyhan>>), 1, 24),
      <<Punct("{"), StrTok("version"), Punct(":"), NumTok(2), Punct("}")>> }

MaxCalls == 3

LoaderCall ==
    /\ calls < MaxCalls
    /\ UNCHANGED <<callVars, batchVars>>
    /\ \E resp \in Responses, disk \in DiskOutcomes :
         LET r == get_all_water_sources_from_osm(cache_file, resp, disk)
         IN  /\ cache_file' = r.cache_file
             /\ requests' = requests + r.requests
             /\ calls' = calls + 1
             /\ last' = [before |-> cache_file, ret |-> r.ret,
                         requests |-> r.requests,
                         kind |-> IF r.requests = 0 THEN "cache" ELSE resp.kind,
                         wrote |-> r.wrote]
             /\ written' = IF r.wrote
                           THEN [valid |-> TRUE, ret |-> r.ret, at |-> calls + 1]
                           ELSE IF r.cache_file # cache_file THEN NotWritten
                           ELSE written

\* The file is deleted from outside.
DeleteCache ==
    /\ cache_file.exists
    /\ cache_file' = NoFile
    /\ written' = NotWritten
    /\ UNCHANGED <<requests, calls, last, callVars, batchVars>>

\* The file is replaced from outside.
ModifyCache ==
    /\ \E text \in CacheTexts :
         /\ cache_file # FileWith(text)
         /\ cache_file' = FileWith(text)
    /\ written' = NotWritten
    /\ UNCHANGED <<requests, calls, last, callVars, batchVars>>

InitLoader ==
    /\ call = NoCall
    /\ BatchIdle
    /\ cache_file \in {NoFile} \cup {FileWith(text) : text \in CacheTexts}
    /\ requests = 0
    /\ calls = 0
    /\ last = NoLast
    /\ written = NotWritten

NextLoader == LoaderCall \/ DeleteCache \/ ModifyCache

SpecLoader == InitLoader /\ [][NextLoader]_vars

(***************************************************************************)
(* load_coordinates_from_csv                                               *)
(***************************************************************************)
Fallback ==
    << <<399334, 328597>>, <<410082, 289784>>, <<384237, 271428>>,
       <<369864, 353253>>, <<401885, 290610>>, <<379144, 402306>>,
       <<412867, 363300>>, <<368000, 346333>>, <<390571, 361713>>,
       <<407214, 418005>>, <<407522, 418280>> >>

\* A CSV file: [exists, readable, columns, rows]; columns names the
\* coordinate columns the file has.
RowsOfFile(file) ==
    IF file.exists /\ file.readable /\ file.columns \in {"lat,lon", "latitude,longitude"}
    THEN file.rows
    ELSE <<>>

RECURSIVE ReadCsvFiles(_, _)
ReadCsvFiles(files, i) ==
    IF i > Len(files) THEN <<>>
    ELSE RowsOfFile(files[i]) \o ReadCsvFiles(files, i + 1)

load_coordinates_from_csv(files) ==
    LET all_coordinates == ReadCsvFiles(files, 1)
    IN  IF all_coordinates = <<>> THEN Fallback ELSE all_coordinates

\* seq[:n], Python's slice
SliceTo(seq, n) ==
    IF n >= 0 THEN SubSeq(seq, 1, Min(n, Len(seq)))
    ELSE SubSeq(seq, 1, IF Len(seq) + n > 0 THEN Len(seq) + n ELSE 0)

\* if len(coordinates) > sample_size: coordinates = coordinates[:sample_size]
Sample(coords, size) == IF Len(coords) > size THEN SliceTo(coords, size) ELSE coords

(***************************************************************************)
(* comprehensive_real_analysis                                             *)
(***************************************************************************)
PoolSize == 6

MinScore == 60

TopN == 10

\* A mutant: an empty catalog is not treated as a failure.
NotWaterSourcesNever(sources) == FALSE

\* if not water_sources
NotWaterSources(sources) == sources = <<>>

\* A mutant: the listed areas are the last ones accepted.
TopSliceLast(areas) ==
    SubSeq(areas, Len(areas) - Min(TopN, Len(areas)) + 1, Len(areas))

\* suitable_areas[:10]
TopSlice(areas) == SliceTo(areas, TopN)

\* One entry of top_areas (the strings are kept as the values they format).
Formatted(area, i) ==
    [rank |-> i,
     coordinates |-> <<area.latitude, area.longitude>>,
     score |-> area.suitability_score,
     category |-> area.suitability_category,
     water |-> <<area.water_distance_km, area.nearest_water_name>>,
     slope |-> area.slope_percent,
     elevation |-> area.elevation_m,
     soil |-> <<area.soil_type, area.soil_ph>>,
     precipitation |-> area.annual_precipitation_mm,
     sunshine |-> area.sunshine_hours]

\* round(len(suitable_areas) / processed * 100, 2) if processed > 0 else 0,
\* in hundredths of a percent
SuccessRate(accepted, total) ==
    IF total > 0 THEN RoundHalfEven(accepted * 10000, total) ELSE 0

\* The request: query parameters, the CSV files and the cache file on disk.
NoCsv == [exists |-> FALSE, readable |-> FALSE, columns |-> "", rows |-> <<>>]

PointA == <<407214, 418005>>

PointB == <<369864, 353253>>

CsvInputs ==
    { <<NoCsv, NoCsv, NoCsv>>,
      << [exists |-> TRUE, readable |-> TRUE, columns |-> "lat,lon",
          rows |-> <<PointA, PointA, PointA, PointA, PointA, PointB,
                     PointA, PointA, PointA, PointA, PointA>>],
         [exists |-> TRUE, readable |-> FALSE, columns |-> "lat,lon",
          rows |-> <<PointB>>],
         NoCsv >>,
      << [exists |-> TRUE, readable |-> TRUE, columns |-> "x,y",
          rows |-> <<PointB>>],
         NoCsv,
         [exists |-> TRUE, readable |-> TRUE, columns |-> "latitude,longitude",
          rows |-> << <<430000, 300000>>, PointB, <<400000, 460000>> >>] >> }

MaxDistinct == 4

MaxAreasInputs == {-5, 0, 1, 2, 100}

SampleSizeInputs == {0, MaxDistinct, 5000}

\* One draw per range of the estimators.
BatchElevationSamples == {10000, 90000, 30000, 120000}

BatchSlopeSamples == {150, 400, 700, 1200}

BatchResponses ==
    { [kind |-> "exception"], [kind |-> "status"], [kind |-> "bad_json"],
      [kind |-> "no_elements"],
      [kind |-> "ok", elements |-> <<ENoCenter, ECanal>>],
      [kind |-> "ok", elements |-> <<EReservoir, ENoCenter, ERiver>>] }

BatchDisk == { [kind |-> "written"], [kind |-> "partial", cut |-> MaxCut] }

BatchCaches ==
    { NoFile, FileWith(json_dump(<<WCoruh, WSeyhan>>)),
      FileWith(SubSeq(json_dump(<<WCoruh, WSeyhan>>), 1, 24)) }

Range(seq) == {seq[i] : i \in DOMAIN seq}

InitBatch ==
    /\ call = NoCall
    /\ cache_file \in BatchCaches
    /\ requests = 0
    /\ calls = 0
    /\ last = NoLast
    /\ written = NotWritten
    /\ pc = "start"
    /\ max_areas \in MaxAreasInputs
    /\ sample_size \in SampleSizeInputs
    /\ csv_files \in CsvInputs
    /\ Cardinality(Range(Sample(load_coordinates_from_csv(csv_files), sample_size)))
           <= MaxDistinct
    /\ water_sources = <<>>
    /\ coordinates = <<>>
    /\ queue = <<>>
    /\ running = EmptyBag
    /\ finished = EmptyBag
    /\ suitable_areas = <<>>
    /\ processed = 0
    /\ cutoff = FALSE
    /\ after_cutoff = 0
    /\ response = [success |-> FALSE, message |-> "none"]

\* water_sources = get_all_water_sources_from_osm(); if not water_sources:
\* return the failure response
FetchWater ==
    /\ pc = "start"
    /\ \E resp \in BatchResponses, disk \in BatchDisk :
         LET r == get_all_water_sources_from_osm(cache_file, resp, disk)
         IN  /\ cache_file' = r.cache_file
             /\ requests' = requests + r.requests
             /\ calls' = calls + 1
             /\ last' = [before |-> cache_file, ret |-> r.ret,
                         requests |-> r.requests,
                         kind |-> IF r.requests = 0 THEN "cache" ELSE resp.kind,
                         wrote |-> r.wrote]
             /\ written' = IF r.wrote
                           THEN [valid |-> TRUE, ret |-> r.ret, at |-> calls + 1]
                           ELSE written
             /\ water_sources' = r.ret
             /\ IF NotWaterSources(r.ret)
                THEN /\ pc' = "done"
                     /\ response' = [success |-> FALSE,
                                     message |-> "Water sources could not be retrieved"]
                ELSE /\ pc' = "load"
                     /\ UNCHANGED response
    /\ UNCHANGED <<call, max_areas, sample_size, csv_files, coordinates, queue,
                   running, finished, suitable_areas, processed, cutoff, after_cutoff>>

\* coordinates = load_coordinates_from_csv(), the sampling, and the
\* executor.submit of every coordinate (the main thread looks at no future
\* before the last submit returns).
SubmitAll ==
    /\ pc = "load"
    /\ coordinates' = Sample(load_coordinates_from_csv(csv_files), sample_size)
    /\ queue' = [i \in 1..Len(coordinates') |->
                    <<coordinates'[i][1], coordinates'[i][2], [x \in {} |-> <<>>]>>]
    /\ pc' = "collect"
    /\ UNCHANGED <<call, loaderVars, max_areas, sample_size, csv_files, water_sources,
                   running, finished, suitable_areas, processed, cutoff, after_cutoff,
                   response>>

\* An idle worker of the pool takes the next work item.  Workers go on
\* after the break: shutdown(wait=True) cancels nothing.
StartTask ==
    /\ pc \in {"collect", "shutdown"}
    /\ queue # <<>>
    /\ BagCardinality(running) < PoolSize
    /\ running' = running (+) SetToBag({Head(queue)})
    /\ queue' = Tail(queue)
    /\ UNCHANGED <<call, loaderVars, pc, max_areas, sample_size, csv_files,
                   water_sources, coordinates, finished, suitable_areas, processed,
                   cutoff, after_cutoff, response>>

\* A worker finishes analyze_coordinate_with_real_water on its item.
CompleteTask ==
    /\ pc \in {"collect", "shutdown"}
    /\ \E coord \in BagToSet(running) :
         \E elevation \in quick_elevation_estimate(coord[1], coord[2],
                                                   BatchElevationSamples) :
           \E slope \in quick_slope_estimate(elevation, coord[1], coord[2],
                                             BatchSlopeSamples) :
             /\ running' = running (-) SetToBag({coord})
             /\ finished' = finished (+) SetToBag({
                    analyze_coordinate_with_real_water(coord, water_sources,
                                                       elevation, slope)})
    /\ after_cutoff' = IF cutoff THEN after_cutoff + 1 ELSE after_cutoff
    /\ UNCHANGED <<call, loaderVars, pc, max_areas, sample_size, csv_files,
                   water_sources, coordinates, queue, suitable_areas, processed,
                   cutoff, response>>

\* One turn of `for future in as_completed(...)`: a done future is yielded
\* (futures done before the call in no particular order), counted, and its
\* result kept when it qualifies; the loop is left when enough are kept.
Collect ==
    /\ pc = "collect"
    /\ \E result \in BagToSet(finished) :
         LET keep == ~IsNone(result) /\ result.suitability_score >= MinScore
             kept == IF keep THEN Append(suitable_areas, result) ELSE suitable_areas
             break == keep /\ Len(kept) >= max_areas
         IN  /\ finished' = finished (-) SetToBag({result})
             /\ processed' = processed + 1
             /\ suitable_areas' = kept
             /\ cutoff' = break
             /\ pc' = IF break THEN "shutdown" ELSE "collect"
    /\ UNCHANGED <<call, loaderVars, max_areas, sample_size, csv_files, water_sources,
                   coordinates, queue, running, after_cutoff, response>>

\* as_completed has yielded every future: the loop ends by itself.
LoopEnd ==
    /\ pc = "collect"
    /\ processed = Len(coordinates)
    /\ pc' = "shutdown"
    /\ UNCHANGED <<call, loaderVars, max_areas, sample_size, csv_files, water_sources,
                   coordinates, queue, running, finished, suitable_areas, processed,
                   cutoff, after_cutoff, response>>

\* Leaving the `with` block: shutdown(wait=True) returns once every submitted
\* task has run; then the response is built.
Respond ==
    /\ pc = "shutdown"
    /\ queue = <<>>
    /\ running = EmptyBag
    /\ pc' = "done"
    /\ response' =
           [success |-> TRUE,
            message |-> "Comprehensive real-data analysis completed",
            summary |-> [total_analyzed |-> processed,
                         productive_areas |-> Len(suitable_areas),
                         success_rate |-> SuccessRate(Len(suitable_areas), processed)],
            top_areas |-> [i \in 1..Len(TopSlice(suitable_areas)) |->
                              Formatted(TopSlice(suitable_areas)[i], i)]]
    /\ UNCHANGED <<call, loaderVars, max_areas, sample_size, csv_files, water_sources,
                   coordinates, queue, running, finished, suitable_areas, processed,
                   cutoff, after_cutoff>>

Next == FetchWater \/ SubmitAll \/ StartTask \/ CompleteTask \/ Collect \/ LoopEnd
        \/ Respond

Spec == InitBatch /\ [][Next]_vars

(***************************************************************************)
(* Claims about the pure functions (checked under SpecCalls)               *)
(***************************************************************************)
\* The rule table of the scorer, one criterion at a time.
WaterPoints(km) == IF km <= 500 THEN 25 ELSE IF km <= 1000 THEN 18 ELSE 0

SlopePoints(pct) == IF pct <= 500 THEN 20 ELSE IF pct <= 1000 THEN 15 ELSE 0

ElevationPoints(m) == IF m <= 80000 THEN 15 ELSE IF m <= 150000 THEN 10 ELSE 0

SoilPoints(p) == IF p = "high" THEN 10 ELSE IF p = "medium-high" THEN 7 ELSE 0

PrecipitationPoints(mm) == IF mm \in 400..800 THEN 8 ELSE 0

SunshinePoints(h) == IF h \in 1800..2800 THEN 7 ELSE 0

\* c is the letter k in either case
SameLetter(c, k) ==
    c = k \/ \E i \in 1..26 : LowerLetters[i] = k /\ Upper[i] = c

LandcoverPoints(label) ==
    IF \E k \in Keywords : \E i \in 0..(Len(label) - Len(k)) :
           \A j \in 1..Len(k) : SameLetter(label[i + j], k[j])
    THEN 8 ELSE 0

TableScore(row) ==
    WaterPoints(row.water_distance_km) + SlopePoints(row.slope_percent)
    + ElevationPoints(row.elevation_m) + SoilPoints(row.soil_productivity)
    + PrecipitationPoints(row.annual_precipitation_mm)
    + SunshinePoints(row.sunshine_hours) + LandcoverPoints(row.landcover_type)

ExampleRow ==
    [water_distance_km |-> 300, slope_percent |-> 200, elevation_m |-> 10000,
     soil_productivity |-> "high", annual_precipitation_mm |-> 600,
     sunshine_hours |-> 2000, landcover_type |-> Farmland]

\* C1: the score of every row is the sum over the seven criteria of the
\* points of the best-matching tier only, and the example row (water 3 km,
\* slope 2 %, elevation 100 m, soil high, precipitation 600, sunshine 2000,
\* landcover Farmland) scores 93.
C1_ScoreIsTableSum ==
    call.fn = "calculate_comprehensive_suitability" =>
        /\ call.ret.score = TableScore(call.row)
        /\ call.row = ExampleRow => call.ret.score = 93

C1_Witness ==
    /\ call.fn = "calculate_comprehensive_suitability"
    /\ call.row = ExampleRow
    /\ call.ret.score = 93

\* The sums that take at most one value per criterion.
SubsetSums ==
    { a + b + c + d + e + f + g :
        a \in {0, 25, 18}, b \in {0, 20, 15}, c \in {0, 15, 10}, d \in {0, 10, 7},
        e \in {0, 8}, f \in {0, 7}, g \in {0, 8} }

\* C2: every score the scorer returns, for a row given directly or built by
\* analyze_coordinate_with_real_water, is a sum with at most one value per
\* criterion and lies in 0..93.
C2_ScoreInRange ==
    /\ call.fn = "calculate_comprehensive_suitability" =>
           call.ret.score \in SubsetSums /\ call.ret.score \in 0..93
    /\ (call.fn = "analyze_coordinate_with_real_water" /\ ~IsNone(call.ret)) =>
           /\ call.ret.suitability_score \in SubsetSums
           /\ call.ret.suitability_score \in 0..93

C2_Witness ==
    /\ call.fn = "analyze_coordinate_with_real_water"
    /\ ~IsNone(call.ret)
    /\ call.ret.suitability_score = 86

\* The category thresholds as ranges.
CategoryOf(score) ==
    CASE score >= 80 -> "HIGHLY PRODUCTIVE"
      [] score \in 70..79 -> "PRODUCTIVE"
      [] score \in 60..69 -> "MODERATELY PRODUCTIVE"
      [] score < 60 -> "LOW PRODUCTIVITY"

CategoryRank(category) ==
    CASE category = "LOW PRODUCTIVITY" -> 0
      [] category = "MODERATELY PRODUCTIVE" -> 1
      [] category = "PRODUCTIVE" -> 2
      [] category = "HIGHLY PRODUCTIVE" -> 3

\* C3: categorize_suitability matches the thresholds exactly (>= 80, 70..79,
\* 60..69, below 60), is monotonic in the score, and the category stored in
\* an EnrichedPoint is this function of its stored score.
C3_CategoryMatchesThresholds ==
    /\ call.fn = "categorize_suitability" =>
           /\ call.ret = CategoryOf(call.score)
           /\ call.ret_higher = CategoryOf(call.higher)
           /\ CategoryRank(call.ret) <= CategoryRank(call.ret_higher)
           /\ call.score = 80 => call.ret = "HIGHLY PRODUCTIVE"
           /\ call.score = 79 => call.ret = "PRODUCTIVE"
           /\ call.score = 59 => call.ret = "LOW PRODUCTIVITY"
    /\ (call.fn = "analyze_coordinate_with_real_water" /\ ~IsNone(call.ret)) =>
           call.ret.suitability_category = CategoryOf(call.ret.suitability_score)

C3_Witness ==
    /\ call.fn = "categorize_suitability"
    /\ call.score = 79 /\ call.ret = "PRODUCTIVE"
    /\ call.higher = 80 /\ call.ret_higher = "HIGHLY PRODUCTIVE"

\* C7: on a non-empty catalog the locator returns the name and type of a
\* feature no other feature is strictly closer than, with that feature's
\* distance; on a one-feature catalog that feature; on an empty catalog the
\* placeholder with distance 0.
C7_NearestIsMinimum ==
    call.fn = "calculate_distance_to_nearest_water" =>
        LET ws == call.water_sources
            dist(i) == DistanceSq(call.lat, call.lon, ws[i].lat, ws[i].lon)
        IN  /\ Len(ws) > 0 =>
                \E i \in 1..Len(ws) :
                    /\ call.ret.name = ws[i].name
                    /\ call.ret.type = ws[i].type
                    /\ call.ret.distance_km = dist(i)
                    /\ \A j \in 1..Len(ws) : ~LimbsLess(dist(j), dist(i))
            /\ Len(ws) = 1 =>
                /\ call.ret.name = ws[1].name
                /\ call.ret.type = ws[1].type
                /\ call.ret.distance_km = dist(1)
            /\ Len(ws) = 0 =>
                /\ call.ret.name = "unknown"
                /\ call.ret.type = "unknown"
                /\ call.ret.distance_km = <<0, 0>>

C7_Witness ==
    /\ call.fn = "calculate_distance_to_nearest_water"
    /\ Len(call.water_sources) = 2
    /\ call.ret.name = call.water_sources[2].name
    /\ call.ret.name # call.water_sources[1].name

(***************************************************************************)
(* Claims about the loader (checked under SpecLoader)                      *)
(***************************************************************************)
\* C8: after a call that fetched the catalog and wrote the cache file, the
\* file reloads to the list that call returned, and every later call, the
\* file neither deleted nor modified, returns that list, in the same order
\* with the same fields, and sends no request; whenever the file is present
\* and parseable a call returns its contents and sends no request.
C8_CacheRoundTrip ==
    /\ written.valid =>
           /\ cache_file.exists
           /\ json_load(cache_file.text).ok
           /\ json_load(cache_file.text).val = written.ret
    /\ (written.valid /\ calls > written.at) =>
           /\ last.ret = written.ret
           /\ last.requests = 0
    /\ (calls > 0 /\ last.before.exists /\ json_load(last.before.text).ok) =>
           /\ last.ret = json_load(last.before.text).val
           /\ last.requests = 0
           /\ last.kind = "cache"

C8_Witness ==
    /\ written.valid
    /\ calls > written.at
    /\ Len(written.ret) = 2
    /\ written.ret[1] # written.ret[2]
    /\ last.ret = written.ret
    /\ last.requests = 0

(***************************************************************************)
(* Claims about the analysis endpoint (checked under Spec)                 *)
(***************************************************************************)
Succeeded == pc = "done" /\ response.success

FailureResponse ==
    [success |-> FALSE, message |-> "Water sources could not be retrieved"]

\* C4: for every max_areas, coordinate list and completion order the batch
\* never accepts more results than max_areas + pool_size - 1.
C4_AcceptedWithinSoftBound ==
    /\ Len(suitable_areas) <= max_areas + PoolSize - 1
    /\ Succeeded => response.summary.productive_areas <= max_areas + PoolSize - 1

\* C5 as stated: a run with an empty coordinate list and a run with an
\* empty catalog each end with a summary whose total_analyzed and
\* success_rate are 0.
C5_EmptyInputsGiveSummary ==
    (pc = "done" /\ (water_sources = <<>> \/ coordinates = <<>>)) =>
        /\ "summary" \in DOMAIN response
        /\ response.summary.total_analyzed = 0
        /\ response.summary.success_rate = 0

\* C5 amended: a run with an empty coordinate list ends with a summary whose
\* total_analyzed, productive_areas and success_rate are 0 and with no listed
\* area; a run with an empty catalog ends with the failure response, which
\* has no summary, and analyses nothing.
C5_EmptyInputsAmended ==
    /\ (pc = "done" /\ water_sources # <<>> /\ coordinates = <<>>) =>
           /\ response.success
           /\ response.summary =
                  [total_analyzed |-> 0, productive_areas |-> 0, success_rate |-> 0]
           /\ response.top_areas = <<>>
    /\ (pc # "start" /\ water_sources = <<>>) =>
           /\ pc = "done"
           /\ response = FailureResponse
           /\ processed = 0

C5_Witness ==
    /\ pc = "done"
    /\ water_sources # <<>>
    /\ coordinates = <<>>
    /\ sample_size = 0
    /\ response.success

FetchFailed == last.kind \in {"exception", "status", "bad_json", "no_elements"}

\* C6: with no usable cache file and a failed fetch the loader returns an
\* empty list after exactly one request and writes no cache file, and the
\* endpoint returns the failure response and dispatches no scoring task.
C6_FetchFailureIsHardStop ==
    (calls = 1 /\ FetchFailed) =>
        /\ ~(last.before.exists /\ json_load(last.before.text).ok)
        /\ last.ret = <<>>
        /\ last.requests = 1
        /\ requests = 1
        /\ ~last.wrote
        /\ cache_file = last.before
        /\ pc = "done"
        /\ response = FailureResponse
        /\ coordinates = <<>> /\ queue = <<>>
        /\ running = EmptyBag /\ finished = EmptyBag
        /\ processed = 0

C6_Witness ==
    /\ calls = 1
    /\ last.kind = "bad_json"
    /\ last.before.exists
    /\ pc = "done"
    /\ response = FailureResponse

\* C9: once the loop is left by the break, at most a pool-size worth of
\* scoring tasks, 6, run to completion before the response is built.
C9_ExtraWorkWithinPool ==
    cutoff => after_cutoff <= PoolSize

RankedAheadOfHigherScore ==
    /\ Succeeded
    /\ \E i, j \in 1..Len(response.top_areas) :
           i < j /\ response.top_areas[i].score < response.top_areas[j].score

(***************************************************************************)
(* Claims about the analysis as the endpoint calls it, with the empty      *)
(* original-data record (checked under SpecCalls)                          *)
(***************************************************************************)
\* The record the endpoint passes as original_data: {}
EmptyOriginalData == [x \in {} |-> <<>>]

EndpointStyleCall ==
    /\ call.fn = "analyze_coordinate_with_real_water"
    /\ call.original_data = EmptyOriginalData
    /\ ~IsNone(call.ret)

\* C11: analyze_coordinate_with_real_water called with the empty
\* original-data record, for every point, catalog and draw of elevation and
\* slope inside the band ranges, yields a score of at most 78 and so never
\* the category 'HIGHLY PRODUCTIVE': the label defaults to 'agriculture',
\* which earns no landcover bonus, and at least one of the other six
\* criteria earns less than its top tier.
C11_EndpointScoreAtMost78 ==
    EndpointStyleCall =>
        LET r == call.ret
            top == (IF r.water_distance_km <= 500 THEN 1 ELSE 0)
                 + (IF r.slope_percent <= 500 THEN 1 ELSE 0)
                 + (IF r.elevation_m <= 80000 THEN 1 ELSE 0)
                 + (IF r.soil_productivity = "high" THEN 1 ELSE 0)
                 + (IF 400 <= r.annual_precipitation_mm
                        /\ r.annual_precipitation_mm <= 800 THEN 1 ELSE 0)
                 + (IF 1800 <= r.sunshine_hours /\ r.sunshine_hours <= 2800
                       THEN 1 ELSE 0)
        IN  /\ r.suitability_score <= 78
            /\ r.suitability_category # "HIGHLY PRODUCTIVE"
            /\ r.landcover_type = Agriculture
            /\ \A i \in 1..Len(r.suitability_reasons) :
                   r.suitability_reasons[i] # "existing agricultural land"
            /\ top <= 5

\* A call in the endpoint's style that reaches the ceiling: water within
\* 5 km, low slope, low elevation, fertile soil and ideal precipitation.
C11_Witness ==
    /\ EndpointStyleCall
    /\ call.ret.suitability_score = 78
    /\ call.ret.suitability_category = "PRODUCTIVE"
    /\ call.ret.water_distance_km <= 500

\* The same bound on what the endpoint itself collects (checked under Spec).
EndpointResultsAtMost78 ==
    \A i \in 1..Len(suitable_areas) :
        /\ suitable_areas[i].suitability_score <= 78
        /\ suitable_areas[i].suitability_category # "HIGHLY PRODUCTIVE"

====
